---- MODULE Spec2Model ----
(***************************************************************************)
(* Bitter-Scan expert dashboard: the session component (UserProvider), the *)
(* cache/sync component (DataProvider) and the page handlers that write to *)
(* the remote store (validate and history pages), as one state machine.    *)
(*                                                                         *)
(* Strings that the code trims or tests for emptiness (labels) are         *)
(* sequences of one-character strings; the JavaScript null is the label    *)
(* NullStr.  A render of a provider and the effects it commits are one     *)
(* step; every await of the code separates two steps.                      *)
(***************************************************************************)
EXTENDS Integers, Sequences, FiniteSets, TLC

VARIABLES
    \* ---- UserProvider (session component)
    user,               \* useState user: NoUser or a user id
    profile,            \* useState profile: NoProfile or the id of the profile row
    authLoading,        \* useState loading of the UserProvider
    initialResolved,    \* initialResolved ref
    authOps,            \* in-flight handlers of the UserProvider (resolveSession callers)
    logoutOp,           \* position of logout()
    lastSession,        \* the session the auth client holds: that of its last event
    \* ---- remote store (backend tables)
    rScans,             \* scans table: id -> row
    rVals,              \* validation_history table: id -> row
    rCount,             \* number of rows of profiles
    nextVal,            \* next serial id of validation_history
    clock,              \* wall clock read by new Date()
    missed,             \* a row changed after the last bulk snapshot while no channel was joined
    \* ---- DataProvider (cache/sync component)
    scans, validationHistory, totalUsers, loading, error,
    initialFetched, isFetching, channelRef, subscriptionActive,
    hasCleanup,         \* whether the last run of the subscription effect returned its cleanup
    fetch,              \* the bulk fetch in flight
    channels,           \* real-time channels created by the subscription effect
    handlers,           \* change-event handlers waiting for their row fetch
    \* ---- pages
    hv,                 \* handleValidation in flight (validate page)
    he                  \* handleEdit / handleDelete in flight (history page)

authVars   == <<user, profile, authLoading, initialResolved, authOps, logoutOp, lastSession>>
remoteVars == <<rScans, rVals, rCount, nextVal, clock, missed>>
cacheVars  == <<scans, validationHistory, totalUsers, loading, error>>
refVars    == <<initialFetched, isFetching, channelRef, subscriptionActive, hasCleanup>>
dataVars   == <<cacheVars, refVars, fetch, channels, handlers>>
pageVars   == <<hv, he>>
vars       == <<authVars, remoteVars, dataVars, pageVars>>

(***************************** bounds **************************************)
MaxScans    == 2    \* scan ids are 1..MaxScans
MaxVals     == 2    \* validation ids are 1..MaxVals
MaxClock    == 3    \* remote writes that read the clock
MaxChannels == 2    \* channel objects alive or leaked at one time
MaxInFlight == 2    \* change-event handlers awaiting a row fetch
MaxProfiles == 2    \* rows of profiles
MaxAuthOps  == 2    \* UserProvider handlers in flight
MaxInput    == 2    \* length of a typed label
MaxActions  == 2    \* page actions started
MaxList     == 3    \* length of a list handed to removeScanFromState

ScanIds == 1..MaxScans
ValIds  == 1..MaxVals
ChanIds == 1..MaxChannels

(***************************** values **************************************)
NoUser    == "none"
Users     == {"e1", "e2"}
NoProfile == "none"
NullStr   == <<"NULL">>
Pending   == "Pending Validation"
Validated == "Validated"
Corrected == "Corrected"
NoError   == "none"
ErrExpired == "Session expired. Please log in again."
ErrFailed  == "Failed to load data: ..."

\* ai_prediction of a scan: set by the farmer-facing app, never written here.
AiOf(id) == IF id = 1 THEN <<"a">> ELSE <<>>

\* x || null of JavaScript on a string.
OrNull(s) == IF s = <<>> \/ s = NullStr THEN NullStr ELSE s

\* String.prototype.trim on a sequence of characters.
RECURSIVE TrimLeft(_)
TrimLeft(s) == IF s # <<>> /\ Head(s) = " " THEN TrimLeft(Tail(s)) ELSE s
RECURSIVE TrimRight(_)
TrimRight(s) ==
    IF s # <<>> /\ s[Len(s)] = " " THEN TrimRight(SubSeq(s, 1, Len(s) - 1)) ELSE s
Trim(s) == TrimRight(TrimLeft(s))

\* prev.filter(x => x.id !== id)
WithoutId(list, id) == LET Keep(x) == x.id # id IN SelectSeq(list, Keep)

\* findIndex(x => x.id === id): the first index with that id, 0 for -1.
FindIndex(s, id) ==
    IF \E i \in 1..Len(s) : s[i].id = id
    THEN CHOOSE i \in 1..Len(s) : s[i].id = id /\ \A j \in 1..(i - 1) : s[j].id # id
    ELSE 0

\* .order("created_at", {ascending: false}): created_at grows with the serial id.
RECURSIVE OrderScans(_)
OrderScans(S) ==
    IF S = {} THEN <<>>
    ELSE LET top == CHOOSE x \in S : \A y \in S : y.id <= x.id
         IN <<top>> \o OrderScans(S \ {top})

\* .order("validated_at", {ascending: false}); equal timestamps by id.
RECURSIVE OrderVals(_)
OrderVals(S) ==
    IF S = {} THEN <<>>
    ELSE LET top == CHOOSE x \in S : \A y \in S :
                        y.at < x.at \/ (y.at = x.at /\ y.id <= x.id)
         IN <<top>> \o OrderVals(S \ {top})

(***************************** remote rows *********************************)
NoScanRow == [present |-> FALSE, status |-> Pending, ev |-> NullStr]
NoValRow  == [present |-> FALSE, scan_id |-> 0, expert_id |-> NoUser, status |-> Validated,
              ev |-> NullStr, ai |-> NullStr, at |-> 0]

\* the row of a scan as a select returns it (created_at grows with the serial id)
ScanRec(id) == [id |-> id, status |-> rScans[id].status, ev |-> rScans[id].ev]
ValRec(id)  == [id |-> id, scan_id |-> rVals[id].scan_id, expert_id |-> rVals[id].expert_id,
                status |-> rVals[id].status, ev |-> rVals[id].ev, ai |-> rVals[id].ai,
                at |-> rVals[id].at]

RemoteScanIds == {i \in ScanIds : rScans[i].present}
RemoteValIds  == {i \in ValIds : rVals[i].present}
SnapshotScans == OrderScans({ScanRec(i) : i \in RemoteScanIds})
SnapshotVals  == OrderVals({ValRec(i) : i \in RemoteValIds})

(***************************** channels ************************************)
NoChannel == [state |-> "unused", queue |-> <<>>]

\* supabase.removeChannel(c): the channel leaves; its CLOSED callback is pending.
RemoveChannel(chs, c) ==
    IF c = 0 THEN chs
    ELSE IF chs[c].state \in {"joining", "joined", "errored"}
         THEN [chs EXCEPT ![c] = [state |-> "leaving", queue |-> <<>>]]
         ELSE IF chs[c].state = "closed" THEN [chs EXCEPT ![c] = NoChannel]
         ELSE chs

FreeChannel(chs) == CHOOSE c \in ChanIds : chs[c].state = "unused"
                                           /\ \A d \in 1..(c - 1) : chs[d].state # "unused"

\* the backend pushes a row-level change event to every joined channel
Emit(chs, evs) ==
    [c \in ChanIds |->
        IF chs[c].state = "joined"
        THEN [chs[c] EXCEPT !.queue = chs[c].queue \o evs]
        ELSE chs[c]]

Event(table, type, id) == [table |-> table, type |-> type, id |-> id]

(***************************** bulk fetch **********************************)
NoFetch == [pc |-> "idle", by |-> "none", outcome |-> "none",
            scans |-> <<>>, vals |-> <<>>, count |-> 0]

FetchDataUnguarded(ready, showSpinner, by) ==
    IF ~ready
    THEN UNCHANGED <<isFetching, loading, error, fetch>>
    ELSE /\ isFetching' = TRUE
         /\ loading' = (IF showSpinner \/ ~initialFetched THEN TRUE ELSE loading)
         /\ error' = NoError
         /\ fetch' = [NoFetch EXCEPT !.pc = "querying", !.by = by]
\* fetchData(showSpinner) up to its first await; ready is the isReady of the
\* closure that is called, by names the caller.
FetchData(ready, showSpinner, by) ==
    IF ~ready \/ isFetching
    THEN UNCHANGED <<isFetching, loading, error, fetch>>
    ELSE /\ isFetching' = TRUE
         /\ loading' = (IF showSpinner \/ ~initialFetched THEN TRUE ELSE loading)
         /\ error' = NoError
         /\ fetch' = [NoFetch EXCEPT !.pc = "querying", !.by = by]

\* the three queries of Promise.all are answered by the backend
FetchServe ==
    /\ fetch.pc = "querying"
    /\ \E outcome \in {"ok", "error", "expired"} :
         /\ fetch' = IF outcome = "ok"
                     THEN [fetch EXCEPT !.pc = "served", !.outcome = "ok",
                                        !.scans = SnapshotScans, !.vals = SnapshotVals,
                                        !.count = rCount]
                     ELSE [fetch EXCEPT !.pc = "served", !.outcome = outcome]
         /\ missed' = (missed /\ outcome # "ok")
    /\ UNCHANGED <<authVars, rScans, rVals, rCount, nextVal, clock, cacheVars, refVars,
                   channels, handlers, pageVars>>

FetchApplyReturning ==
    /\ IF fetch.outcome = "ok"
       THEN /\ scans' = fetch.scans
            /\ validationHistory' = fetch.vals
            /\ totalUsers' = fetch.count
            /\ initialFetched' = TRUE
            /\ error' = error
       ELSE /\ error' = (IF fetch.outcome = "expired" THEN ErrExpired ELSE ErrFailed)
            /\ UNCHANGED <<scans, validationHistory, totalUsers, initialFetched>>
    /\ isFetching' = (fetch.outcome = "expired")
    /\ loading' = (fetch.outcome = "expired" /\ loading)
    /\ fetch' = NoFetch
FetchApplyMarking ==
    /\ IF fetch.outcome = "ok"
       THEN /\ scans' = fetch.scans
            /\ validationHistory' = fetch.vals
            /\ totalUsers' = fetch.count
            /\ error' = error
       ELSE /\ error' = (IF fetch.outcome = "expired" THEN ErrExpired ELSE ErrFailed)
            /\ UNCHANGED <<scans, validationHistory, totalUsers>>
    /\ initialFetched' = TRUE
    /\ isFetching' = FALSE
    /\ loading' = FALSE
    /\ fetch' = NoFetch
\* the rest of fetchData after the await: try, catch and finally
FetchApply ==
    /\ IF fetch.outcome = "ok"
       THEN /\ scans' = fetch.scans
            /\ validationHistory' = fetch.vals
            /\ totalUsers' = fetch.count
            /\ initialFetched' = TRUE
            /\ error' = error
       ELSE /\ error' = (IF fetch.outcome = "expired" THEN ErrExpired ELSE ErrFailed)
            /\ UNCHANGED <<scans, validationHistory, totalUsers, initialFetched>>
    /\ isFetching' = FALSE
    /\ loading' = FALSE
    /\ fetch' = NoFetch

FetchFinish ==
    /\ fetch.pc = "served"
    /\ FetchApply
    /\ UNCHANGED <<authVars, remoteVars, channelRef, subscriptionActive, hasCleanup,
                   channels, handlers, pageVars>>

\* document visibilitychange: fetchDataRef.current()
VisibilityRefresh ==
    /\ FetchData(user # NoUser, FALSE, "visibility")
    /\ UNCHANGED <<authVars, remoteVars, scans, validationHistory, totalUsers,
                   initialFetched, channelRef, subscriptionActive, hasCleanup,
                   channels, handlers, pageVars>>

OnlyScanKept(list, scanId) ==
    LET Same(x) == x.id = scanId IN SelectSeq(list, Same)
removeScanFromState(list, scanId) ==
    WithoutId(list, scanId)

(***************************** subscription effect *************************)
\* The render that sees the user value u and the effects it commits, in the
\* order of the source: the cleanup of the previous run of the subscription
\* effect, the effect itself, then the logout-clearing effect.  fetchDataRef
\* is updated by the first effect, so it holds the closure of this render.
Commit(u) ==
    LET cleans == hasCleanup /\ channelRef # 0
        ref1   == IF cleans THEN 0 ELSE channelRef
        act1   == IF cleans THEN FALSE ELSE subscriptionActive
        chs1   == IF cleans THEN RemoveChannel(channels, channelRef) ELSE channels
    IN
    IF u = NoUser
    THEN \* lines 234-245, then the clearing effect (lines 557-566)
         /\ channels' = RemoveChannel(chs1, ref1)
         /\ channelRef' = 0
         /\ subscriptionActive' = (IF ref1 # 0 THEN FALSE ELSE act1)
         /\ hasCleanup' = FALSE
         /\ initialFetched' = FALSE
         /\ scans' = <<>> /\ validationHistory' = <<>> /\ totalUsers' = 0
         /\ loading' = FALSE /\ error' = NoError
         /\ UNCHANGED <<isFetching, fetch>>
    ELSE IF act1
    THEN \* line 248: a subscription is believed active
         /\ channels' = chs1 /\ channelRef' = ref1 /\ subscriptionActive' = act1
         /\ hasCleanup' = FALSE
         /\ UNCHANGED <<cacheVars, initialFetched, isFetching, fetch>>
    ELSE \/ \* lines 251-504: first fetch, then a new channel
            /\ \E c \in ChanIds : RemoveChannel(chs1, ref1)[c].state = "unused"
            /\ IF ~initialFetched
               THEN FetchData(TRUE, TRUE, "effect")
               ELSE UNCHANGED <<isFetching, loading, error, fetch>>
            /\ channels' = [RemoveChannel(chs1, ref1) EXCEPT
                               ![FreeChannel(RemoveChannel(chs1, ref1))] =
                                   [state |-> "joining", queue |-> <<>>]]
            /\ channelRef' = ref1 /\ subscriptionActive' = act1
            /\ hasCleanup' = TRUE
            /\ UNCHANGED <<scans, validationHistory, totalUsers, initialFetched>>
         \/ \* lines 505-512: setting the channel up threw
            /\ IF ~initialFetched
               THEN FetchData(TRUE, TRUE, "effect")
               ELSE FetchData(TRUE, FALSE, "fallback")
            /\ channels' = RemoveChannel(chs1, ref1)
            /\ channelRef' = ref1 /\ subscriptionActive' = FALSE
            /\ hasCleanup' = TRUE
            /\ UNCHANGED <<scans, validationHistory, totalUsers, initialFetched>>

\* useUser() hands the DataProvider another principal (sign-in, sign-out, switch)
UserChanges(u) ==
    /\ u # user
    /\ user' = u
    /\ profile' = (IF u = NoUser THEN NoProfile ELSE u)
    /\ Commit(u)
    /\ UNCHANGED <<authLoading, initialResolved, authOps, logoutOp, lastSession,
                   remoteVars, handlers, pageVars>>

(***************************** subscribe callback **************************)
\* lines 446-504
StatusCallback(c, status) ==
    /\ \/ status = "SUBSCRIBED" /\ channels[c].state \in {"joining", "errored"}
       \/ status \in {"CHANNEL_ERROR", "TIMED_OUT"} /\ channels[c].state \in {"joining", "joined"}
       \/ status = "CLOSED" /\ channels[c].state \in {"joining", "joined", "errored", "leaving"}
    /\ IF status = "SUBSCRIBED"
       THEN /\ channelRef' = c
            /\ subscriptionActive' = TRUE
            /\ channels' = [channels EXCEPT ![c].state = "joined"]
            /\ UNCHANGED <<isFetching, loading, error, fetch>>
       ELSE /\ subscriptionActive' = FALSE
            /\ channelRef' = channelRef
            /\ channels' = [channels EXCEPT ![c] =
                   [state |-> IF status = "CLOSED"
                              THEN (IF channels[c].state = "leaving" THEN "unused" ELSE "closed")
                              ELSE "errored",
                    queue |-> <<>>]]
            /\ IF initialFetched
               THEN FetchData(user # NoUser, FALSE, "status")
               ELSE UNCHANGED <<isFetching, loading, error, fetch>>
    /\ UNCHANGED <<authVars, remoteVars, scans, validationHistory, totalUsers,
                   initialFetched, hasCleanup, handlers, pageVars>>

\* a removed channel whose CLOSED callback is never delivered
ChannelForgotten(c) ==
    /\ channels[c].state = "leaving"
    /\ channels' = [channels EXCEPT ![c] = NoChannel]
    /\ UNCHANGED <<authVars, remoteVars, cacheVars, refVars, fetch, handlers, pageVars>>

(***************************** change events *******************************)
NoScanRec == [id |-> 0, status |-> Pending, ev |-> NullStr]
NoValRec  == [id |-> 0, scan_id |-> 0, expert_id |-> NoUser, status |-> Validated,
              ev |-> NullStr, ai |-> NullStr, at |-> 0]

FreeSlot == CHOOSE k \in 1..MaxInFlight : \A h \in handlers : h.k # k


ScanPrepended(prev, full) == <<full>> \o prev
\* lines 283-291
ScanInserted(prev, full) ==
    IF \E i \in 1..Len(prev) : prev[i].id = full.id THEN prev ELSE <<full>> \o prev

\* lines 307-317 and 385-395
RowUpdated(prev, full) ==
    LET index == FindIndex(prev, full.id)
    IN IF index = 0 THEN <<full>> \o prev ELSE [prev EXCEPT ![index] = full]

\* lines 345-352
ValidationInserted(prev, full) ==
    IF \E i \in 1..Len(prev) : prev[i].id = full.id THEN prev ELSE <<full>> \o prev

ScanMirroredValidated(prev, full) ==
    LET index == FindIndex(prev, full.scan_id)
    IN IF full.scan_id # 0 /\ index # 0
       THEN [prev EXCEPT ![index] =
                [prev[index] EXCEPT !.status = Validated, !.ev = OrNull(full.ev)]]
       ELSE prev
\* lines 354-369 and 397-412
ScanMirrored(prev, full) ==
    LET index == FindIndex(prev, full.scan_id)
    IN IF full.scan_id # 0 /\ index # 0
       THEN [prev EXCEPT ![index] =
                [prev[index] EXCEPT
                    !.status = (IF full.status = Validated THEN Validated ELSE Corrected),
                    !.ev = OrNull(full.ev)]]
       ELSE prev

\* the postgres_changes callback for the event e, up to its first await
OnEventUnguarded(e) ==
       /\ IF e.table = "profiles"
          THEN /\ totalUsers' = (IF e.type = "INSERT" THEN totalUsers + 1
                                 ELSE IF totalUsers > 0 THEN totalUsers - 1 ELSE 0)
               /\ UNCHANGED <<scans, validationHistory, handlers>>
          ELSE IF e.type = "DELETE"
          THEN /\ scans' = (IF e.table = "scans" THEN WithoutId(scans, e.id) ELSE scans)
               /\ validationHistory' = (IF e.table = "validation_history"
                                        THEN WithoutId(validationHistory, e.id)
                                        ELSE validationHistory)
               /\ UNCHANGED <<totalUsers, handlers>>
          ELSE /\ Cardinality(handlers) < MaxInFlight
               /\ handlers' = handlers \cup
                     {[k |-> FreeSlot, table |-> e.table, type |-> e.type, id |-> e.id,
                       pc |-> "fetching", found |-> FALSE,
                       scan |-> NoScanRec, val |-> NoValRec]}
               /\ UNCHANGED <<scans, validationHistory, totalUsers>>
OnEvent(e) ==
       /\ IF ~initialFetched
          THEN UNCHANGED <<scans, validationHistory, totalUsers, handlers>>
          ELSE IF e.table = "profiles"
          THEN /\ totalUsers' = (IF e.type = "INSERT" THEN totalUsers + 1
                                 ELSE IF totalUsers > 0 THEN totalUsers - 1 ELSE 0)
               /\ UNCHANGED <<scans, validationHistory, handlers>>
          ELSE IF e.type = "DELETE"
          THEN /\ scans' = (IF e.table = "scans" THEN WithoutId(scans, e.id) ELSE scans)
               /\ validationHistory' = (IF e.table = "validation_history"
                                        THEN WithoutId(validationHistory, e.id)
                                        ELSE validationHistory)
               /\ UNCHANGED <<totalUsers, handlers>>
          ELSE /\ Cardinality(handlers) < MaxInFlight
               /\ handlers' = handlers \cup
                     {[k |-> FreeSlot, table |-> e.table, type |-> e.type, id |-> e.id,
                       pc |-> "fetching", found |-> FALSE,
                       scan |-> NoScanRec, val |-> NoValRec]}
               /\ UNCHANGED <<scans, validationHistory, totalUsers>>

\* channel c hands its next event to the callback
Deliver(c) ==
    /\ channels[c].state = "joined"
    /\ channels[c].queue # <<>>
    /\ channels' = [channels EXCEPT ![c].queue = Tail(channels[c].queue)]
    /\ OnEvent(Head(channels[c].queue))
    /\ UNCHANGED <<authVars, remoteVars, loading, error, refVars, fetch, pageVars>>

\* channel c hands its next event to the callback and will hand it over again
DeliverTwice(c) ==
    /\ channels[c].state = "joined"
    /\ channels[c].queue # <<>>
    /\ OnEvent(Head(channels[c].queue))
    /\ UNCHANGED <<authVars, remoteVars, loading, error, refVars, fetch, channels, pageVars>>

\* fetchScanWithProfile / fetchValidationWithRelations answered by the backend:
\* .single() on a missing row is an error, and the helper returns null
RowServe(h) ==
    /\ h \in handlers /\ h.pc = "fetching"
    /\ \E failed \in BOOLEAN :
        handlers' = (handlers \ {h}) \cup
            {IF h.table = "scans"
             THEN [h EXCEPT !.pc = "served",
                            !.found = ~failed /\ rScans[h.id].present,
                            !.scan = IF ~failed /\ rScans[h.id].present
                                     THEN ScanRec(h.id) ELSE NoScanRec]
             ELSE [h EXCEPT !.pc = "served",
                            !.found = ~failed /\ rVals[h.id].present,
                            !.val = IF ~failed /\ rVals[h.id].present
                                    THEN ValRec(h.id) ELSE NoValRec]}
    /\ UNCHANGED <<authVars, remoteVars, cacheVars, refVars, fetch, channels, pageVars>>

\* the callback after its await
RowApply(h) ==
    /\ h \in handlers /\ h.pc = "served"
    /\ handlers' = handlers \ {h}
    /\ IF ~h.found
       THEN UNCHANGED <<scans, validationHistory>>
       ELSE IF h.table = "scans"
       THEN /\ scans' = (IF h.type = "INSERT" THEN ScanInserted(scans, h.scan)
                         ELSE RowUpdated(scans, h.scan))
            /\ validationHistory' = validationHistory
       ELSE /\ validationHistory' = (IF h.type = "INSERT"
                                     THEN ValidationInserted(validationHistory, h.val)
                                     ELSE RowUpdated(validationHistory, h.val))
            /\ scans' = ScanMirrored(scans, h.val)
    /\ UNCHANGED <<authVars, remoteVars, totalUsers, loading, error, refVars, fetch,
                   channels, pageVars>>

(***************************** other writers *******************************)
\* Writes by the farmer-facing app and by other experts' dashboards.
Unheard == missed \/ ~\E c \in ChanIds : channels[c].state = "joined"
Tick == clock < MaxClock /\ clock' = clock + 1 /\ missed' = Unheard

ExtInsertScan(s) ==
    /\ ~rScans[s].present /\ \A t \in 1..(s - 1) : rScans[t].present
    /\ ~\E v \in ValIds : rVals[v].present /\ rVals[v].scan_id = s
    /\ Tick
    /\ rScans' = [rScans EXCEPT ![s] = [present |-> TRUE, status |-> Pending, ev |-> NullStr]]
    /\ channels' = Emit(channels, <<Event("scans", "INSERT", s)>>)
    /\ UNCHANGED <<authVars, rVals, rCount, nextVal, cacheVars, refVars, fetch, handlers, pageVars>>

\* a scan row that no validation refers to is deleted
ExtDeleteScan(s) ==
    /\ rScans[s].present
    /\ ~\E v \in ValIds : rVals[v].present /\ rVals[v].scan_id = s
    /\ Tick
    /\ rScans' = [rScans EXCEPT ![s] = NoScanRow]
    /\ channels' = Emit(channels, <<Event("scans", "DELETE", s)>>)
    /\ UNCHANGED <<authVars, rVals, rCount, nextVal, cacheVars, refVars, fetch, handlers, pageVars>>

ExtUpdateScan(s, st) ==
    /\ rScans[s].present /\ rScans[s].status # st
    /\ Tick
    /\ rScans' = [rScans EXCEPT ![s].status = st]
    /\ channels' = Emit(channels, <<Event("scans", "UPDATE", s)>>)
    /\ UNCHANGED <<authVars, rVals, rCount, nextVal, cacheVars, refVars, fetch, handlers, pageVars>>

ExtInsertVal(s, e, st, label) ==
    /\ nextVal <= MaxVals
    /\ rScans[s].present
    /\ ~\E v \in ValIds : rVals[v].present /\ rVals[v].scan_id = s /\ rVals[v].expert_id = e
    /\ Tick
    /\ rVals' = [rVals EXCEPT ![nextVal] =
                    [present |-> TRUE, scan_id |-> s, expert_id |-> e, status |-> st,
                     ev |-> label, ai |-> AiOf(s), at |-> clock']]
    /\ nextVal' = nextVal + 1
    /\ channels' = Emit(channels, <<Event("validation_history", "INSERT", nextVal)>>)
    /\ UNCHANGED <<authVars, rScans, rCount, cacheVars, refVars, fetch, handlers, pageVars>>

ExtUpdateVal(v, st, label) ==
    /\ rVals[v].present /\ (rVals[v].status # st \/ rVals[v].ev # label)
    /\ Tick
    /\ rVals' = [rVals EXCEPT ![v].status = st, ![v].ev = label]
    /\ channels' = Emit(channels, <<Event("validation_history", "UPDATE", v)>>)
    /\ UNCHANGED <<authVars, rScans, rCount, nextVal, cacheVars, refVars, fetch, handlers, pageVars>>

ExtDeleteVal(v) ==
    /\ rVals[v].present
    /\ Tick
    /\ rVals' = [rVals EXCEPT ![v] = NoValRow]
    /\ channels' = Emit(channels, <<Event("validation_history", "DELETE", v)>>)
    /\ UNCHANGED <<authVars, rScans, rCount, nextVal, cacheVars, refVars, fetch, handlers, pageVars>>

ExtProfile(type) ==
    /\ IF type = "INSERT" THEN rCount < MaxProfiles ELSE rCount > 0
    /\ Tick
    /\ rCount' = (IF type = "INSERT" THEN rCount + 1 ELSE rCount - 1)
    /\ channels' = Emit(channels, <<Event("profiles", type, 0)>>)
    /\ UNCHANGED <<authVars, rScans, rVals, nextVal, cacheVars, refVars, fetch, handlers, pageVars>>

(***************************** validate page *******************************)
\* remote0 is history: the status the stored scan had when the action started
HvIdle == [pc |-> "idle", result |-> "none", scanId |-> 0, action |-> "none",
           ev |-> NullStr, status |-> Pending, original |-> Pending, ai |-> NullStr,
           uid |-> NoUser, ready |-> FALSE, ts |-> 0, input |-> <<>>,
           remote0 |-> Pending]

\* One handler of a page runs at a time (the dialogs and buttons it disables).
PagesIdle == hv.pc = "idle" /\ he.pc = "idle"

\* lines 96 and 90 of validate/page.tsx
StatusAlwaysValidated(action) == Validated
StatusFor(action) == IF action = "confirm" THEN Validated ELSE Corrected
ExpertValidationFor(action, ai, corrected) ==
    IF action = "confirm" THEN ai ELSE IF corrected # <<>> THEN corrected ELSE ai

\* supabase.from("scans").update({status}).eq("id", id) on the table
ScanRowReplaced(rs, id, st) ==
    [rs EXCEPT ![id] = IF st = rs[id].status THEN rs[id] ELSE NoScanRow]
ScanStatusWritten(rs, id, st) ==
    IF rs[id].present THEN [rs EXCEPT ![id].status = st] ELSE rs
ScanEvents(id) == IF rScans[id].present THEN <<Event("scans", "UPDATE", id)>> ELSE <<>>

\* the rows of validation_history of one scan and one expert
RowsOf(s, e) == {v \in ValIds : rVals[v].present /\ rVals[v].scan_id = s /\ rVals[v].expert_id = e}

\* the insertPayload of lines 120-128
InsertPayload(h) ==
    [present |-> TRUE, scan_id |-> h.scanId, expert_id |-> h.uid, status |-> h.status,
     ev |-> h.ev, ai |-> h.ai, at |-> h.ts]

\* handleValidation(scanId, action) up to its first await (lines 65-117);
\* input is decision[scanKey]
handleValidation(scanId, action, input) ==
    /\ PagesIdle
    /\ clock < MaxActions
    /\ LET index     == FindIndex(scans, scanId)
           ai        == AiOf(scanId)
           corrected == IF Trim(input) # <<>> THEN Trim(input) ELSE <<>>
           expertValidation == ExpertValidationFor(action, ai, corrected)
       IN IF \/ index = 0
             \/ user = NoUser
             \/ action = "correct" /\ corrected = <<>>
             \/ expertValidation = <<>>
          THEN /\ hv' = [HvIdle EXCEPT !.result = "rejected"]
               /\ clock' = clock
          ELSE /\ hv' = [pc |-> "scanUpdate", result |-> "none", scanId |-> scanId,
                         action |-> action, ev |-> expertValidation,
                         status |-> StatusFor(action), original |-> scans[index].status,
                         ai |-> ai, uid |-> user, ready |-> user # NoUser,
                         ts |-> clock + 1, input |-> input,
                         remote0 |-> rScans[scanId].status]
               /\ clock' = clock + 1
    /\ UNCHANGED <<authVars, rScans, rVals, rCount, nextVal, missed, dataVars, he>>

\* lines 150-169: the success toast, the local removal and the refresh
ValidationSucceeds ==
    /\ scans' = removeScanFromState(scans, hv.scanId)
    /\ FetchData(hv.ready, FALSE, "validate")
    /\ hv' = [hv EXCEPT !.pc = "refreshing", !.result = "success"]
    /\ UNCHANGED <<validationHistory, totalUsers, initialFetched, channelRef,
                   subscriptionActive, hasCleanup>>

\* the answer to applyScanUpdate(updatePayload) (lines 101-118)
HvScanUpdate ==
    /\ hv.pc = "scanUpdate"
    /\ \/ /\ rScans' = ScanStatusWritten(rScans, hv.scanId, hv.status)
          /\ channels' = Emit(channels, ScanEvents(hv.scanId))
          /\ missed' = Unheard
          /\ hv' = [hv EXCEPT !.pc = "insert"]
       \/ \* the update returned an error: nothing to roll back
          /\ hv' = [HvIdle EXCEPT !.result = "failed"]
          /\ UNCHANGED <<rScans, channels, missed>>
    /\ UNCHANGED <<authVars, rVals, rCount, nextVal, clock, cacheVars, refVars, fetch,
                   handlers, he>>

\* the answer to the insert of line 130; (scan_id, expert_id) is unique
HvInsert ==
    /\ hv.pc = "insert"
    /\ \/ /\ RowsOf(hv.scanId, hv.uid) = {} /\ rScans[hv.scanId].present
          /\ nextVal <= MaxVals
          /\ rVals' = [rVals EXCEPT ![nextVal] = InsertPayload(hv)]
          /\ nextVal' = nextVal + 1
          /\ channels' = Emit(channels, <<Event("validation_history", "INSERT", nextVal)>>)
          /\ missed' = Unheard
          /\ ValidationSucceeds
       \/ \* 23505: fall back to an update (lines 133-138)
          /\ RowsOf(hv.scanId, hv.uid) # {}
          /\ hv' = [hv EXCEPT !.pc = "fallback"]
          /\ UNCHANGED <<rVals, nextVal, channels, missed, cacheVars, refVars, fetch>>
       \/ \* any other error: roll the scan back (lines 144-147, 171-178)
          /\ hv' = [hv EXCEPT !.pc = "rollback"]
          /\ UNCHANGED <<rVals, nextVal, channels, missed, cacheVars, refVars, fetch>>
    /\ UNCHANGED <<authVars, rScans, rCount, clock, handlers, he>>

\* the answer to the fallback update of lines 134-138
HvFallback ==
    /\ hv.pc = "fallback"
    /\ \/ /\ rVals' = [v \in ValIds |->
                          IF v \in RowsOf(hv.scanId, hv.uid) THEN InsertPayload(hv)
                          ELSE rVals[v]]
          /\ channels' = Emit(channels,
                 OrderScans({Event("validation_history", "UPDATE", v) :
                                 v \in RowsOf(hv.scanId, hv.uid)}))
          /\ missed' = Unheard
          /\ ValidationSucceeds
       \/ /\ hv' = [hv EXCEPT !.pc = "rollback"]
          /\ UNCHANGED <<rVals, channels, missed, cacheVars, refVars, fetch>>
    /\ UNCHANGED <<authVars, rScans, rCount, nextVal, clock, handlers, he>>

\* the answer to applyScanUpdate(rollbackPayload) (lines 171-191)
HvRollback ==
    /\ hv.pc = "rollback"
    /\ \/ /\ rScans' = ScanStatusWritten(rScans, hv.scanId, hv.original)
          /\ channels' = Emit(channels, ScanEvents(hv.scanId))
          /\ missed' = Unheard
       \/ UNCHANGED <<rScans, channels, missed>>
    /\ hv' = [HvIdle EXCEPT !.result = "failed"]
    /\ UNCHANGED <<authVars, rVals, rCount, nextVal, clock, cacheVars, refVars, fetch,
                   handlers, he>>

\* await refreshData() returns (lines 169, 189-191)
HvReturn ==
    /\ hv.pc = "refreshing"
    /\ ~(fetch.pc # "idle" /\ fetch.by = "validate")
    /\ hv' = [HvIdle EXCEPT !.result = "success", !.scanId = hv.scanId]
    /\ UNCHANGED <<authVars, remoteVars, dataVars, he>>

\* a consumer of the context calls removeScanFromState(scanId) and nothing else
RemoveScanCall(scanId) ==
    /\ scans' = removeScanFromState(scans, scanId)
    /\ hv' = [HvIdle EXCEPT !.result = "removed", !.scanId = scanId]
    /\ UNCHANGED <<authVars, remoteVars, validationHistory, totalUsers, loading, error,
                   refVars, fetch, channels, handlers, he>>

(***************************** history page ********************************)
HeIdle == [pc |-> "idle", result |-> "none", kind |-> "none", id |-> 0, scan_id |-> 0,
           expert |-> NoUser, recStatus |-> Validated, status |-> Validated, ev |-> NullStr,
           uid |-> NoUser, ready |-> FALSE]

\* the ownership test of lines 168 and 217
OwnsAnyRecord(record, u) == TRUE
OwnsRecord(record, u) == record.expert_id = u

\* handleEdit (lines 162-181) and handleDelete (lines 210-227) up to the first
\* await; idx is editIdx or deleteIdx, form is editForm
HistoryAction(kind, idx, form) ==
    /\ PagesIdle
    /\ clock < MaxActions
    /\ idx \in 1..Len(validationHistory)
    /\ LET record == validationHistory[idx] IN
       IF user = NoUser
       THEN he' = [HeIdle EXCEPT !.result = "ignored"]
       ELSE IF ~OwnsRecord(record, user)
       THEN he' = [HeIdle EXCEPT !.result = "denied"]
       ELSE he' = [pc |-> "valWrite", result |-> "none", kind |-> kind, id |-> record.id,
                   scan_id |-> record.scan_id, expert |-> record.expert_id,
                   recStatus |-> record.status,
                   status |-> IF kind = "edit" THEN form.status ELSE Pending,
                   ev |-> IF kind = "edit" THEN form.ev ELSE NullStr,
                   uid |-> user, ready |-> user # NoUser]
    /\ clock' = clock + 1
    /\ UNCHANGED <<authVars, rScans, rVals, rCount, nextVal, missed, dataVars, hv>>

handleEdit(idx, form) == HistoryAction("edit", idx, form)
handleDelete(idx)     == HistoryAction("delete", idx, [status |-> Pending, ev |-> NullStr])

\* lines 197-200 and 243-245: the success toast and the refresh
HistorySucceeds ==
    /\ FetchData(he.ready, FALSE, "history")
    /\ he' = [he EXCEPT !.pc = "refreshing", !.result = "success"]

\* the row of validation_history after .update(...).eq('id', id) or .delete()
ValidationWritten(rv, h) ==
    IF ~rv[h.id].present THEN rv
    ELSE IF h.kind = "edit"
         THEN [rv EXCEPT ![h.id].ev = h.ev, ![h.id].status = h.status]
         ELSE [rv EXCEPT ![h.id] = NoValRow]

\* whether the handler goes on to write the scan (lines 186 and 232)
WritesScan(h) ==
    /\ h.scan_id # 0
    /\ h.kind = "delete" => h.recStatus \in {Validated, Corrected}

\* the answer to the write on validation_history (lines 175-183, 224-229)
HeValWrite ==
    /\ he.pc = "valWrite"
    /\ \/ /\ rVals' = ValidationWritten(rVals, he)
          /\ channels' = Emit(channels,
                IF rVals[he.id].present
                THEN <<Event("validation_history",
                             IF he.kind = "edit" THEN "UPDATE" ELSE "DELETE", he.id)>>
                ELSE <<>>)
          /\ missed' = Unheard
          /\ IF WritesScan(he)
             THEN /\ he' = [he EXCEPT !.pc = "scanWrite"]
                  /\ UNCHANGED <<isFetching, loading, error, fetch>>
             ELSE HistorySucceeds
       \/ /\ he' = [HeIdle EXCEPT !.result = "failed"]
          /\ UNCHANGED <<rVals, channels, missed, isFetching, loading, error, fetch>>
    /\ UNCHANGED <<authVars, rScans, rCount, nextVal, clock, scans, validationHistory,
                   totalUsers, initialFetched, channelRef, subscriptionActive, hasCleanup,
                   handlers, hv>>

\* the answer to the write on scans (lines 187-194, 233-240): a returned error
\* is not looked at, a thrown one ends in the catch
HeScanWrite ==
    /\ he.pc = "scanWrite"
    /\ \/ /\ rScans' = ScanStatusWritten(rScans, he.scan_id, he.status)
          /\ channels' = Emit(channels, ScanEvents(he.scan_id))
          /\ missed' = Unheard
          /\ HistorySucceeds
       \/ /\ HistorySucceeds
          /\ UNCHANGED <<rScans, channels, missed>>
       \/ /\ he' = [HeIdle EXCEPT !.result = "failed"]
          /\ UNCHANGED <<rScans, channels, missed, isFetching, loading, error, fetch>>
    /\ UNCHANGED <<authVars, rVals, rCount, nextVal, clock, scans, validationHistory,
                   totalUsers, initialFetched, channelRef, subscriptionActive, hasCleanup,
                   handlers, hv>>

HeReturn ==
    /\ he.pc = "refreshing"
    /\ ~(fetch.pc # "idle" /\ fetch.by = "history")
    /\ he' = [HeIdle EXCEPT !.result = "success"]
    /\ UNCHANGED <<authVars, remoteVars, dataVars, hv>>

(***************************** UserProvider ********************************)
\* A handler of the UserProvider that is waiting for an answer: kind is
\* "initial" (getInitialSession), "event" (the onAuthStateChange callback) or
\* "visible" (handleVisibilityChange); pc names the call it awaits.
OpIds == 1..MaxAuthOps
NoOp  == [kind |-> "none", pc |-> "idle", u |-> NoUser, spinner |-> FALSE]
NoOps == [i \in OpIds |-> NoOp]

\* the finally blocks of lines 715-720 and 776-783; handleVisibilityChange has none
Finally(op) ==
    /\ authLoading' = (IF op.kind = "initial" \/ (op.kind = "event" /\ op.spinner)
                       THEN FALSE ELSE authLoading)
    /\ initialResolved' = (IF op.kind = "visible" THEN initialResolved ELSE TRUE)

\* resolveSession(sessionUser) up to its await (lines 633-645), on behalf of
\* the handler op in slot i
resolveSession(i, op, sessionUser) ==
    /\ user' = sessionUser
    /\ IF sessionUser # NoUser
       THEN /\ authOps' = [authOps EXCEPT ![i] = [op EXCEPT !.pc = "lookup", !.u = sessionUser]]
            /\ UNCHANGED <<profile, initialResolved>>
            /\ authLoading' = (IF op.kind = "event" /\ op.spinner THEN TRUE ELSE authLoading)
       ELSE /\ profile' = NoProfile
            /\ authOps' = [authOps EXCEPT ![i] = NoOp]
            /\ Finally(op)

\* the invalid-refresh-token branches: clear, then await supabase.auth.signOut()
SignsOut(i, op) ==
    /\ user' = NoUser /\ profile' = NoProfile
    /\ authOps' = [authOps EXCEPT ![i] = [op EXCEPT !.pc = "signOut"]]
    /\ authLoading' = (IF op.kind = "event" /\ op.spinner THEN TRUE ELSE authLoading)
    /\ UNCHANGED initialResolved

\* the onAuthStateChange callback up to its first await (lines 727-756)
AuthEvent(i, event, session) ==
    /\ authOps[i] = NoOp
    /\ lastSession' = session
    /\ LET op == [kind |-> "event", pc |-> "idle", u |-> NoUser,
                  spinner |-> ~initialResolved] IN
       IF event = "TOKEN_REFRESHED" /\ session = NoUser
       THEN SignsOut(i, op)
       ELSE resolveSession(i, op, session)
    /\ UNCHANGED <<logoutOp, remoteVars, dataVars, pageVars>>

\* supabase.auth.getSession() answers getInitialSession (lines 668-695) or
\* handleVisibilityChange (lines 798-820)
SessionAnswer(i) ==
    /\ authOps[i].pc = "getSession"
    /\ \/ resolveSession(i, authOps[i], lastSession)
       \/ SignsOut(i, authOps[i])
       \/ \* any other error is logged
          /\ authOps' = [authOps EXCEPT ![i] = NoOp]
          /\ Finally(authOps[i])
          /\ UNCHANGED <<user, profile>>
    /\ UNCHANGED <<logoutOp, lastSession, remoteVars, dataVars, pageVars>>

\* the select on profiles answers fetchProfile (lines 598-625), resolveSession
\* returns and the handler ends
LookupAnswer(i) ==
    /\ authOps[i].pc = "lookup"
    /\ \E outcome \in {"found", "PGRST116", "error", "thrown"} :
          profile' = (IF outcome = "found" THEN authOps[i].u ELSE NoProfile)
    /\ authOps' = [authOps EXCEPT ![i] = NoOp]
    /\ Finally(authOps[i])
    /\ UNCHANGED <<user, logoutOp, lastSession, remoteVars, dataVars, pageVars>>

\* supabase.auth.signOut() returns or throws inside a handler
SignOutAnswer(i) ==
    /\ authOps[i].pc = "signOut"
    /\ authOps' = [authOps EXCEPT ![i] = NoOp]
    /\ Finally(authOps[i])
    /\ UNCHANGED <<user, profile, logoutOp, lastSession, remoteVars, dataVars, pageVars>>

\* the tab becomes visible (lines 795-801)
handleVisibilityChange(i) ==
    /\ authOps[i] = NoOp
    /\ authOps' = [authOps EXCEPT ![i] = [NoOp EXCEPT !.kind = "visible", !.pc = "getSession"]]
    /\ UNCHANGED <<user, profile, authLoading, initialResolved, logoutOp, lastSession,
                   remoteVars, dataVars, pageVars>>

\* logout() up to its await (lines 647-657)
logout ==
    /\ logoutOp = "idle"
    /\ user' = NoUser /\ profile' = NoProfile
    /\ logoutOp' = "signOut"
    /\ UNCHANGED <<authLoading, initialResolved, authOps, lastSession,
                   remoteVars, dataVars, pageVars>>

\* supabase.auth.signOut() returns or throws, logout() returns (lines 656-661)
LogoutReturn ==
    /\ logoutOp = "signOut"
    /\ logoutOp' = "idle"
    /\ UNCHANGED <<user, profile, authLoading, initialResolved, authOps, lastSession,
                   remoteVars, dataVars, pageVars>>

(***************************** initial state *******************************)
InitLocal ==
    /\ user = NoUser /\ profile = NoProfile
    /\ authLoading = TRUE /\ initialResolved = FALSE
    /\ authOps = NoOps /\ logoutOp = "idle" /\ lastSession = NoUser
    /\ rCount = 1 /\ clock = 0 /\ missed = FALSE
    /\ scans = <<>> /\ validationHistory = <<>> /\ totalUsers = 0
    /\ loading = TRUE /\ error = NoError
    /\ initialFetched = FALSE /\ isFetching = FALSE
    /\ channelRef = 0 /\ subscriptionActive = FALSE /\ hasCleanup = FALSE
    /\ fetch = NoFetch
    /\ channels = [c \in ChanIds |-> NoChannel]
    /\ handlers = {}
    /\ hv = HvIdle /\ he = HeIdle

\* one pending scan, no validation yet
Init ==
    /\ InitLocal
    /\ rScans = [i \in ScanIds |-> [present |-> i = 1, status |-> Pending, ev |-> NullStr]]
    /\ rVals = [i \in ValIds |-> NoValRow]
    /\ nextVal = 1

\* The UserProvider has mounted: getInitialSession awaits the stored session
InitAuth ==
    /\ user = NoUser /\ profile = NoProfile
    /\ authLoading = TRUE /\ initialResolved = FALSE
    /\ authOps = [NoOps EXCEPT ![1] = [NoOp EXCEPT !.kind = "initial", !.pc = "getSession"]]
    /\ logoutOp = "idle"
    /\ lastSession \in {NoUser, "e1"}
    /\ rScans = [i \in ScanIds |-> [present |-> i = 1, status |-> Pending, ev |-> NullStr]]
    /\ rVals = [i \in ValIds |-> NoValRow]
    /\ nextVal = 1 /\ rCount = 1 /\ clock = 0 /\ missed = FALSE
    /\ scans = <<>> /\ validationHistory = <<>> /\ totalUsers = 0
    /\ loading = TRUE /\ error = NoError
    /\ initialFetched = FALSE /\ isFetching = FALSE
    /\ channelRef = 0 /\ subscriptionActive = FALSE /\ hasCleanup = FALSE
    /\ fetch = NoFetch
    /\ channels = [c \in ChanIds |-> NoChannel]
    /\ handlers = {}
    /\ hv = HvIdle /\ he = HeIdle

\* cached lists of up to MaxList scans, in any order, to call removeScanFromState on
RECURSIVE ListsOf(_, _)
ListsOf(S, n) == IF n = 0 THEN {<<>>}
                 ELSE ListsOf(S, n - 1) \cup
                      {<<x>> \o l : x \in S, l \in {m \in ListsOf(S, n - 1) : Len(m) = n - 1}}

InitRemove ==
    /\ user = "e1" /\ profile = "e1"
    /\ authLoading = FALSE /\ initialResolved = TRUE
    /\ authOps = NoOps /\ logoutOp = "idle" /\ lastSession = "e1"
    /\ rScans = [i \in ScanIds |-> [present |-> TRUE, status |-> Pending, ev |-> NullStr]]
    /\ rVals = [i \in ValIds |-> NoValRow]
    /\ nextVal = 1 /\ rCount = 1 /\ clock = 0 /\ missed = FALSE
    /\ scans \in ListsOf({[id |-> i, status |-> st, ev |-> NullStr] :
                              i \in ScanIds, st \in {Pending, Validated}}, MaxList)
    /\ validationHistory = <<>> /\ totalUsers = 1
    /\ loading \in BOOLEAN /\ error \in {NoError, ErrFailed}
    /\ initialFetched = TRUE /\ isFetching = FALSE
    /\ channelRef = 0 /\ subscriptionActive = FALSE /\ hasCleanup = TRUE
    /\ fetch = NoFetch
    /\ channels = [c \in ChanIds |-> NoChannel]
    /\ handlers = {}
    /\ hv = HvIdle /\ he = HeIdle

\* every scan present; scan 1 pending, or corrected by the expert e2
InitPages ==
    /\ InitLocal
    /\ \E judged \in BOOLEAN :
         /\ rScans = [i \in ScanIds |->
                         [present |-> TRUE,
                          status |-> IF judged /\ i = 1 THEN Corrected ELSE Pending,
                          ev |-> NullStr]]
         /\ rVals = [i \in ValIds |->
                        IF judged /\ i = 1
                        THEN [present |-> TRUE, scan_id |-> 1, expert_id |-> "e2",
                              status |-> Corrected, ev |-> <<"b">>, ai |-> AiOf(1), at |-> 0]
                        ELSE NoValRow]
         /\ nextVal = (IF judged THEN 2 ELSE 1)

\* what an expert's confirm or correct writes: the AI label or another one
Judgments == {[status |-> Validated, ev |-> <<"a">>], [status |-> Corrected, ev |-> <<"b">>]}

Fetching == FetchServe \/ FetchFinish \/ VisibilityRefresh

EventHandling ==
    \/ \E c \in ChanIds : Deliver(c)
    \/ \E h \in handlers : RowServe(h)
    \/ \E h \in handlers : RowApply(h)

\* The cache under change events: one principal signs in and stays.
NextEvents ==
    \/ user = NoUser /\ UserChanges("e1")
    \/ Fetching
    \/ \E c \in ChanIds : StatusCallback(c, "SUBSCRIBED")
    \/ EventHandling
    \/ \E s \in ScanIds : ExtInsertScan(s)
    \/ \E s \in ScanIds : \E st \in {Pending, Validated, Corrected} : ExtUpdateScan(s, st)
    \/ \E s \in ScanIds : \E e \in Users : \E j \in Judgments : ExtInsertVal(s, e, j.status, j.ev)
    \/ \E v \in ValIds : \E j \in Judgments : ExtUpdateVal(v, j.status, j.ev)
    \/ \E v \in ValIds : ExtDeleteVal(v)
    \/ \E ty \in {"INSERT", "DELETE"} : ExtProfile(ty)

\* The life cycle of the subscription across sign-in and sign-out.
NextLife ==
    \/ \E u \in Users \cup {NoUser} : UserChanges(u)
    \/ Fetching
    \/ \E c \in ChanIds :
          \E st \in {"SUBSCRIBED", "CHANNEL_ERROR", "TIMED_OUT", "CLOSED"} : StatusCallback(c, st)
    \/ \E c \in ChanIds : ChannelForgotten(c)
    \/ EventHandling
    \/ \E s \in ScanIds : ExtInsertScan(s)

\* what can be typed as a label: spaces and letters, up to MaxInput characters
RECURSIVE Typed(_)
Typed(n) == IF n = 0 THEN {<<>>}
            ELSE Typed(n - 1) \cup {Append(s, ch) : s \in Typed(n - 1), ch \in {" ", "b"}}
Inputs == Typed(MaxInput)
Forms  == Judgments \cup {[status |-> Validated, ev |-> <<>>]}

\* The pages at work on a cache kept by bulk fetches alone.
NextPages ==
    \/ \E u \in {"e1", NoUser} : UserChanges(u)
    \/ Fetching
    \/ \E s \in ScanIds : \E a \in {"confirm", "correct"} : \E input \in Inputs :
          handleValidation(s, a, input)
    \/ HvScanUpdate \/ HvInsert \/ HvFallback \/ HvRollback \/ HvReturn
    \/ \E idx \in ValIds : \E form \in Forms : handleEdit(idx, form)
    \/ \E idx \in ValIds : handleDelete(idx)
    \/ HeValWrite \/ HeScanWrite \/ HeReturn

\* The UserProvider answering authentication events.
NextAuthEvents ==
    \/ \E i \in OpIds : \E event \in {"SIGNED_IN", "TOKEN_REFRESHED"} :
          \E session \in Users \cup {NoUser} : AuthEvent(i, event, session)
    \/ \E i \in OpIds : SessionAnswer(i) \/ LookupAnswer(i) \/ SignOutAnswer(i)

\* The UserProvider with its visibility handler and logout().
NextAuth ==
    \/ NextAuthEvents
    \/ \E i \in OpIds : handleVisibilityChange(i)
    \/ logout
    \/ LogoutReturn

\* The cache under change events that may be delivered more than once, and
\* under local removals.
NextDup ==
    \/ user = NoUser /\ UserChanges("e1")
    \/ Fetching
    \/ \E c \in ChanIds : StatusCallback(c, "SUBSCRIBED")
    \/ EventHandling
    \/ \E c \in ChanIds : DeliverTwice(c)
    \/ \E scanId \in ScanIds : RemoveScanCall(scanId)
    \/ \E s \in ScanIds : ExtInsertScan(s)
    \/ \E s \in ScanIds : ExtUpdateScan(s, Validated)
    \/ \E s \in ScanIds : ExtInsertVal(s, "e2", Validated, <<"a">>)
    \/ \E v \in ValIds : ExtUpdateVal(v, Corrected, <<"b">>)

\* removeScanFromState on its own, with ids in and out of the cache
\* Every kind of change event, around the first fetch of one principal.
NextGuard ==
    \/ user = NoUser /\ UserChanges("e1")
    \/ Fetching
    \/ \E c \in ChanIds : StatusCallback(c, "SUBSCRIBED")
    \/ EventHandling
    \/ \E s \in ScanIds : ExtInsertScan(s)
    \/ \E s \in ScanIds : ExtUpdateScan(s, Validated)
    \/ \E s \in ScanIds : ExtDeleteScan(s)
    \/ \E s \in ScanIds : ExtInsertVal(s, "e2", Validated, <<"a">>)
    \/ \E v \in ValIds : ExtUpdateVal(v, Corrected, <<"b">>)
    \/ \E v \in ValIds : ExtDeleteVal(v)
    \/ \E ty \in {"INSERT", "DELETE"} : ExtProfile(ty)

\* Validation records of other experts, with and without a label, reaching
\* the cache of one principal.
NextMirror ==
    \/ user = NoUser /\ UserChanges("e1")
    \/ Fetching
    \/ \E c \in ChanIds : StatusCallback(c, "SUBSCRIBED")
    \/ EventHandling
    \/ \E s \in ScanIds : ExtInsertScan(s)
    \/ \E s \in ScanIds : \E f \in Forms : ExtInsertVal(s, "e2", f.status, f.ev)
    \/ \E v \in ValIds : \E f \in Forms : ExtUpdateVal(v, f.status, f.ev)

NextRemove == \E scanId \in ScanIds : RemoveScanCall(scanId)

Next == NextEvents

SpecLife == Init /\ [][NextLife]_vars
\* the backend answers every query and the continuation of fetchData then runs
SpecLifeFair == SpecLife /\ WF_vars(FetchServe) /\ WF_vars(FetchFinish)
SpecPages == InitPages /\ [][NextPages]_vars
SpecAuthEvents == InitAuth /\ [][NextAuthEvents]_vars
SpecAuth == InitAuth /\ [][NextAuth]_vars
SpecDup == Init /\ [][NextDup]_vars
SpecGuard == Init /\ [][NextGuard]_vars
SpecMirror == Init /\ [][NextMirror]_vars
SpecRemove == InitRemove /\ [][NextRemove]_vars
Spec == Init /\ [][Next]_vars
(***************************** C1 ******************************************)
\* the cached validation records of the cached scan s
RecordsOf(s) == {i \in 1..Len(validationHistory) : validationHistory[i].scan_id = s.id}
\* the most recent of them (latest validated_at)
LatestOf(s) ==
    validationHistory[CHOOSE i \in RecordsOf(s) :
        \A j \in RecordsOf(s) : validationHistory[j].at <= validationHistory[i].at]
Mirrored ==
    \A i \in 1..Len(scans) :
        RecordsOf(scans[i]) # {} =>
            /\ scans[i].status = LatestOf(scans[i]).status
            /\ scans[i].ev = LatestOf(scans[i]).ev

\* a step in which the cache finishes applying a validation_history event
ValidationEventApplied ==
    \/ \E h \in handlers : h.table = "validation_history" /\ h.found /\ RowApply(h)
    \/ \E c \in ChanIds :
          /\ Deliver(c)
          /\ initialFetched
          /\ Head(channels[c].queue).table = "validation_history"
          /\ Head(channels[c].queue).type = "DELETE"

\* C1: after the cache has applied a validation_history INSERT, UPDATE or
\* DELETE event, every cached scan with a cached validation record has the
\* status and expert_validation of its most recent record.  Stated for the
\* events that reach a cache that mirrored before them, so that a violation
\* is the work of the handler and of nothing that came earlier.
C1_MirrorAfterValidationEvent == [][(Mirrored /\ ValidationEventApplied) => Mirrored']_vars
(***************************** C2 ******************************************)
IdsOf(list) == {list[i].id : i \in 1..Len(list)}

\* a principal is signed in, the first bulk fetch is done, nothing is in
\* flight and no change event is undelivered or was never sent
Quiescent ==
    /\ user # NoUser /\ initialFetched
    /\ fetch.pc = "idle" /\ handlers = {}
    /\ \A c \in ChanIds : channels[c].queue = <<>>
    /\ ~missed
    /\ hv.pc = "idle" /\ he.pc = "idle"

CacheEqualsRemote ==
    /\ IdsOf(scans) = RemoteScanIds
    /\ IdsOf(validationHistory) = RemoteValIds
    /\ \A i \in 1..Len(scans) : scans[i].status = rScans[scans[i].id].status

\* C2: whenever the system is quiescent the cache equals the remote store.
C2_QuiescentCacheEqualsRemote == Quiescent => CacheEqualsRemote
(***************************** C4 ******************************************)
\* C4: while no principal is signed in (the logout-clearing effect has run),
\* scans and validationHistory are empty and totalUsers is 0, whatever was in
\* flight at sign-out.
C4_SignedOutCacheStaysEmpty ==
    user = NoUser => scans = <<>> /\ validationHistory = <<>> /\ totalUsers = 0

(***************************** C7 ******************************************)
LostStatuses == {"CHANNEL_ERROR", "TIMED_OUT", "CLOSED"}

\* C7: a CHANNEL_ERROR, TIMED_OUT or CLOSED report after the initial fetch
\* has completed starts a bulk re-fetch (its queries are out, to be answered
\* after the report), and a bulk fetch whose queries succeeded replaces the
\* cache by the snapshot it read.  Stated while a principal is signed in.
C7_LostSubscriptionRefetches ==
    [][ /\ \A c \in ChanIds : \A st \in LostStatuses :
              (user # NoUser /\ initialFetched /\ StatusCallback(c, st))
                  => fetch'.pc = "querying"
        /\ (FetchFinish /\ fetch.outcome = "ok") =>
              (scans' = fetch.scans /\ validationHistory' = fetch.vals
               /\ totalUsers' = fetch.count) ]_vars

(***************************************************************************)
(* C3: while no principal is signed in, no step of the cache/sync          *)
(* component issues the bulk queries and none creates a real-time channel. *)
(***************************************************************************)
C3_SignedOutNoRemoteActivity ==
    [][ (user = NoUser /\ user' = NoUser) =>
          /\ fetch'.pc = "querying" => fetch.pc = "querying"
          /\ \A c \in ChanIds :
                channels'[c].state = "joining" => channels[c].state = "joining" ]_vars

(***************************************************************************)
(* C5: handleEdit and handleDelete go on to their remote writes only for a *)
(* signed-in user and a record whose expert_id is that user's id, the      *)
(* write on validation_history touches that record alone, and an           *)
(* invocation that is refused leaves both remote tables as they were.      *)
(***************************************************************************)
C5_OnlyOwnerWrites ==
    [][ /\ he'.pc # "idle" => he'.uid # NoUser /\ he'.expert = he'.uid
        /\ (PagesIdle /\ he'.pc = "idle" /\ hv'.pc = "idle") =>
              rVals' = rVals /\ rScans' = rScans
        /\ he.pc = "valWrite" =>
              \A v \in ValIds :
                 rVals'[v] # rVals[v] => v = he.id /\ rVals[v].expert_id = he.uid ]_vars

\* a record of another expert was in the cache and the action on it was refused
C5_DeniedReached == he.result = "denied" /\ rVals[1].present /\ rVals[1].expert_id = "e2"

(***************************************************************************)
(* C6: no step of the dashboard takes a scan row out of the remote store.  *)
(***************************************************************************)
C6_RemoteScansNeverRemoved ==
    [][ \A s \in ScanIds : rScans[s].present => rScans'[s].present ]_vars

\* a validated scan was dropped from the local cache and is still stored
C6_RemovedLocallyOnly ==
    /\ hv.pc = "refreshing"
    /\ hv.scanId \notin IdsOf(scans)
    /\ rScans[hv.scanId].present

(***************************************************************************)
(* C10: at the step where handleValidation reports success the remote scan *)
(* has the status of the action, and validation_history holds a record of  *)
(* that scan and the acting expert with the same status, the scan's AI     *)
(* prediction, and as expert_validation the AI prediction on confirm or    *)
(* the chosen label without its surrounding spaces on correct.             *)
(***************************************************************************)
Spaces(n) == [i \in 1..n |-> " "]
IsTrimOf(t, s) ==
    /\ t # <<>> => t[1] # " " /\ t[Len(t)] # " "
    /\ \E i, j \in 0..Len(s) : s = Spaces(i) \o t \o Spaces(j)

ReportsSuccess == hv.pc # "refreshing" /\ hv'.pc = "refreshing"

C10_SuccessPostcondition ==
    [][ ReportsSuccess =>
          LET wanted == IF hv.action = "confirm" THEN Validated ELSE Corrected IN
          /\ rScans'[hv.scanId].present
          /\ rScans'[hv.scanId].status = wanted
          /\ \E v \in ValIds :
                /\ rVals'[v].present
                /\ rVals'[v].scan_id = hv.scanId
                /\ rVals'[v].expert_id = hv.uid
                /\ hv.uid # NoUser
                /\ rVals'[v].status = wanted
                /\ rVals'[v].ai = AiOf(hv.scanId)
                /\ IF hv.action = "confirm"
                   THEN rVals'[v].ev = AiOf(hv.scanId)
                   ELSE IsTrimOf(rVals'[v].ev, hv.input) ]_vars

\* a correction typed with surrounding spaces was reported as a success
C10_CorrectionReported ==
    /\ hv.pc = "refreshing" /\ hv.action = "correct"
    /\ hv.input # hv.ev
    /\ \E v \in ValIds : rVals[v].present /\ rVals[v].ev = hv.ev /\ rVals[v].expert_id = hv.uid

(***************************************************************************)
(* C8: once every handler of the UserProvider has completed, profile is    *)
(* null or, with a user, that user's profile record.                       *)
(***************************************************************************)
HandlersDone == \A i \in OpIds : authOps[i] = NoOp

C8_SettledOnLastSession ==
    HandlersDone => (profile = NoProfile \/ (user # NoUser /\ profile = user))

(***************************************************************************)
(* C9: at the step where logout() returns, after a remote sign-out that    *)
(* succeeded or threw, profile is null unless a session has been resolved  *)
(* since.                                                                  *)
(***************************************************************************)
C9_NullAfterLogout ==
    [][ LogoutReturn => (user' = NoUser => profile' = NoProfile) ]_vars

(***************************************************************************)
(* C11: removeScanFromState(id) leaves in scans exactly the entries whose  *)
(* id is not id, in their order, and leaves validationHistory, totalUsers, *)
(* loading and error as they were; with an id not cached nothing changes.  *)
(***************************************************************************)
KeptAt(id) == {i \in 1..Len(scans) : scans[i].id # id}
RankIn(K, i) == Cardinality({k \in K : k <= i})

C11_RemovalFrame ==
    [][ \A id \in ScanIds :
          RemoveScanCall(id) =>
             /\ Len(scans') = Cardinality(KeptAt(id))
             /\ \A i \in KeptAt(id) : scans'[RankIn(KeptAt(id), i)] = scans[i]
             /\ (id \notin IdsOf(scans) => scans' = scans)
             /\ UNCHANGED <<validationHistory, totalUsers, loading, error>> ]_vars

\* a removal took an id out of a list that keeps another entry
C11_RemovedOne ==
    /\ hv.result = "removed"
    /\ hv.scanId \notin IdsOf(scans)
    /\ scans # <<>>

(***************************************************************************)
(* C12: if a principal is signed in from some time on, then from some time *)
(* on the first fetch of that session has completed, has failed with its   *)
(* error shown, or a bulk fetch is in flight.                              *)
(***************************************************************************)
C12_SignInEventuallyFetches ==
    <>[](user # NoUser) => <>[](initialFetched \/ error # NoError \/ fetch.pc # "idle")

(***************************************************************************)
(* C13: when handleValidation ends in failure after a rollback write that  *)
(* was carried out, the remote scan has the status it had when the action  *)
(* started and no validation record of this action exists.                 *)
(***************************************************************************)
RolledBack == hv.pc = "rollback" /\ hv'.pc = "idle" /\ rScans' # rScans

C13_RollbackRestoresStart ==
    [][ RolledBack =>
          /\ rScans'[hv.scanId].status = hv.remote0
          /\ ~\E v \in ValIds : rVals'[v].present /\ rVals'[v].at = hv.ts ]_vars

(***************************************************************************)
(* C14: once handleValidation has returned from a success and no bulk      *)
(* fetch is in flight, and no history action has run, the cache does not   *)
(* hold the validated scan as 'Pending Validation'.                        *)
(***************************************************************************)
ValidationSettled ==
    /\ hv.pc = "idle" /\ hv.result = "success"
    /\ he = HeIdle
    /\ fetch.pc = "idle"

C14_ValidatedScanNotPending ==
    ValidationSettled =>
        ~\E i \in 1..Len(scans) : scans[i].id = hv.scanId /\ scans[i].status = Pending

(***************************************************************************)
(* C15: the in-flight flag is set exactly while a bulk fetch is in flight; *)
(* while one is in flight no step issues the queries again, and a call of  *)
(* fetchData made then changes neither the fetch nor loading, error or the *)
(* cached collections.                                                     *)
(***************************************************************************)
InFlight == fetch.pc # "idle"

C15_OneFetchInFlight ==
    [][ /\ isFetching <=> InFlight
        /\ isFetching' <=> InFlight'
        /\ InFlight =>
              \/ fetch' = fetch
              \/ fetch.pc = "querying" /\ fetch'.pc = "served" /\ fetch'.by = fetch.by
              \/ fetch.pc = "served" /\ fetch'.pc = "idle"
        /\ (InFlight /\ VisibilityRefresh) =>
              UNCHANGED <<fetch, loading, error, scans, validationHistory, totalUsers>> ]_vars

\* refreshData was called by handleValidation while an older fetch was in flight
C15_CallSkipped ==
    /\ hv.pc = "refreshing"
    /\ InFlight /\ fetch.by # "validate"

(***************************************************************************)
(* C16: at most one channel of the DataProvider is subscribing or          *)
(* subscribed and not yet removed.                                         *)
(***************************************************************************)
LiveChannels == {c \in ChanIds : channels[c].state \in {"joining", "joined"}}

C16_AtMostOneLiveChannel == Cardinality(LiveChannels) <= 1

(***************************************************************************)
(* C17: the cached scans list and the cached validationHistory list never  *)
(* hold two entries with the same id.                                      *)
(***************************************************************************)
NoTwins(list) == \A i, j \in 1..Len(list) : list[i].id = list[j].id => i = j

C17_UniqueIds == NoTwins(scans) /\ NoTwins(validationHistory)

\* the row of an INSERT event has arrived for a scan that is already cached
C17_InsertForCachedScan ==
    \E h \in handlers :
        /\ h.table = "scans" /\ h.type = "INSERT"
        /\ h.pc = "served" /\ h.found
        /\ h.id \in IdsOf(scans)

(***************************** C18 *****************************************)
\* C18: a change event of any type on scans, validation_history or profiles
\* that the callback receives while initialFetched is false starts no row
\* query and no bulk query and leaves scans, validationHistory and
\* totalUsers as they were.
C18_EventBeforeFirstFetchIgnored ==
    [][ \A c \in ChanIds :
          (Deliver(c) /\ ~initialFetched)
             => UNCHANGED <<scans, validationHistory, totalUsers, handlers, fetch>> ]_vars

\* a joined channel holds an event while the first fetch is still in flight
C18_EventDuringFirstFetch ==
    /\ ~initialFetched /\ fetch.pc # "idle"
    /\ \E c \in ChanIds : channels[c].state = "joined" /\ channels[c].queue # <<>>

(***************************** C19 *****************************************)
Finishes == fetch.pc = "served" /\ fetch'.pc = "idle"

\* C19: a bulk fetch whose queries returned an error changes none of scans,
\* validationHistory and totalUsers, does not set initialFetched, and sets
\* error to 'Session expired. Please log in again.' for a 401 or refresh-token
\* error and to 'Failed to load data: ...' otherwise; a bulk fetch that
\* succeeds ends with error null.
C19_FailedFetchKeepsCache ==
    [][ Finishes =>
          IF fetch.outcome = "ok"
          THEN error' = NoError
          ELSE /\ UNCHANGED <<scans, validationHistory, totalUsers, initialFetched>>
               /\ error' = (IF fetch.outcome = "expired" THEN ErrExpired ELSE ErrFailed)
               /\ error' # NoError ]_vars

\* the first fetch of a signed-in user has failed on an expired session
C19_FirstFetchExpired ==
    /\ user # NoUser /\ fetch.pc = "idle"
    /\ error = ErrExpired /\ ~initialFetched

(***************************** C20 *****************************************)
FetchDone == fetch.pc = "idle" /\ ~isFetching /\ ~loading

\* C20: a bulk fetch whose remote queries have returned, with data, with a
\* query error or with a session-expired error, eventually finishes, and when
\* it has finished the in-flight flag is cleared and loading is false, so the
\* guard of the next fetchData call does not skip it.
C20_ServedFetchFinishes == (fetch.pc = "served") ~> FetchDone

\* a refresh that followed a good first fetch has ended on an expired session
C20_RefreshEndedExpired ==
    /\ initialFetched /\ error = ErrExpired
    /\ FetchDone

(***************************** C21 *****************************************)
\* the scan s after the validation record full has been mirrored onto it
MirrorOf(s, full) ==
    [id |-> s.id,
     status |-> IF full.status = Validated THEN Validated ELSE Corrected,
     ev |-> IF full.ev = <<>> \/ full.ev = NullStr THEN NullStr ELSE full.ev]

\* C21: when the callback of a validation_history INSERT or UPDATE event
\* applies the record it fetched, the scans list keeps its length and order;
\* the cached scan the record refers to gets status 'Validated' for a
\* 'Validated' record and 'Corrected' otherwise, and the record's
\* expert_validation or null; every other cached scan is unchanged, and so
\* is the whole list when the scan is not cached.
C21_MirrorFrame ==
    [][ \A h \in handlers :
          (h.table = "validation_history" /\ h.found /\ RowApply(h)) =>
             /\ Len(scans') = Len(scans)
             /\ \A i \in 1..Len(scans) :
                   scans'[i] = IF scans[i].id = h.val.scan_id
                               THEN MirrorOf(scans[i], h.val)
                               ELSE scans[i]
             /\ (h.val.scan_id \notin IdsOf(scans) => scans' = scans) ]_vars

\* a 'Corrected' record is about to be applied to the second of two cached
\* scans, whose cached status differs
C21_CorrectionForSecondScan ==
    \E h \in handlers :
        /\ h.table = "validation_history" /\ h.pc = "served" /\ h.found
        /\ h.val.status = Corrected
        /\ Len(scans) = 2 /\ scans[2].id = h.val.scan_id
        /\ scans[2].status # Corrected

(***************************** C22 *****************************************)
\* created_at grows with the serial id of a scan; at is validated_at
ScansDescending == \A i, j \in 1..Len(scans) : i < j => scans[i].id >= scans[j].id
ValidationsDescending ==
    \A i, j \in 1..Len(validationHistory) :
        i < j => validationHistory[i].at >= validationHistory[j].at

\* C22: once the initial fetch is done, and whatever change events have been
\* applied in whatever order their row queries were answered, scans is
\* ordered by created_at descending and validationHistory by validated_at
\* descending.
C22_CacheOrdered == initialFetched => ScansDescending /\ ValidationsDescending

====
